---- MODULE Spec2Model ----
(***************************************************************************)
(* Model of backend/server.js: the in-memory viewer-token store            *)
(* (viewerTokens, generateViewerToken, validateViewerToken), the deferred  *)
(* setTimeout clean-up, and the Express handlers that mint or validate     *)
(* tokens.                                                                 *)
(*                                                                         *)
(* Time is Date.now() in milliseconds.  The clock is observed at the       *)
(* instants around process start and around the first expiry window; the   *)
(* code compares times only with expiresAt and timer due times, so the     *)
(* instants in between behave alike.                                       *)
(*                                                                         *)
(* A JavaScript value is a record [t |-> type, v |-> text]; === is         *)
(* equality of such records, so the number 42 and the string "42" differ.  *)
(*                                                                         *)
(* Token k stands for the k-th distinct 64-character hex string that       *)
(* crypto.randomBytes(32) returns: it is modelled as returning a string it *)
(* has not returned before (a collision has probability 2^-256 per pair),  *)
(* and, the strings being opaque, the k-th draw is named k.  A request may *)
(* present any token of the pool, drawn already or not.                    *)
(***************************************************************************)
EXTENDS Integers, Sequences, FiniteSets, TLC

VARIABLES now, viewerTokens, timers, issuedAt, removedBy, inflight, last

vars == <<now, viewerTokens, timers, issuedAt, removedBy, inflight, last>>

(* ------------------------------ bounds --------------------------------- *)

\* the number of strings crypto.randomBytes can return
MaxTokens == 2

(* ---------------------------- JS values -------------------------------- *)

Undefined == [t |-> "undefined", v |-> ""]
Str(s) == [t |-> "string", v |-> s]
Num(s) == [t |-> "number", v |-> s]

\* JavaScript ToBoolean, as used by `!fileId`, `filename || 'document'`.
Truthy(x) ==
  /\ x.t # "undefined"
  /\ ~(x.t = "string" /\ x.v = "")
  /\ ~(x.t = "number" /\ x.v = "0")

\* a || b
OrElse(a, b) == IF Truthy(a) THEN a ELSE b

\* tokenData.fileId !== fileId
StrictNotEqual(a, b) == a # b

(* ------------------------------ inputs --------------------------------- *)

Tokens == 1..MaxTokens
NoToken == 0
PresentedTokens == Tokens \cup {NoToken}

\* req.params.fileId is always a string
PathFileIds == {Str("42"), Str("99")}
\* req.body.fileId of a JSON body is any JSON value, or absent
BodyFileIds == {Str("42"), Num("42"), Str(""), Undefined}
BodyFilenames == {Str("a.pdf"), Undefined}

(* ----------------------------- the clock ------------------------------- *)

TOKEN_TTL_MS == 15 * 60 * 1000

\* the instants at which the clock is read: process start, and 1 ms before,
\* at, and 1 ms after the expiry of a token minted at process start
Instants == {0, TOKEN_TTL_MS - 1, TOKEN_TTL_MS, TOKEN_TTL_MS + 1}

(* ------------------------------ the Map -------------------------------- *)

EmptyMap == [k \in {} |-> Undefined]
MapHas(m, k) == k \in DOMAIN m
MapSet(m, k, val) == [x \in DOMAIN m \cup {k} |-> IF x = k THEN val ELSE m[x]]
MapDelete(m, k) == [x \in DOMAIN m \ {k} |-> m[x]]

(* ------------------------- the token store ----------------------------- *)

\* a generator that returns the same string every time
RandomBytes_fixed(used) == {1}

\* crypto.randomBytes(32).toString('hex'): the string returned next, when
\* the strings of `used` were returned before (none once the pool is used up)
RandomBytes(used) ==
  {k \in Tokens \ used : \A j \in Tokens \ used : k <= j}

\* a lifetime of one minute
ExpiresAt_short(t) == t + 60 * 1000

\* Date.now() + (15 * 60 * 1000)
ExpiresAt(t) == t + TOKEN_TTL_MS

\* the delay handed to setTimeout, as the instant the callback becomes due
TimerDue(t) == t + TOKEN_TTL_MS

\* the two arguments stored under each other's key
TokenRecord_swapped(t, fileId, filename) ==
  [fileId |-> filename, filename |-> fileId, expiresAt |-> ExpiresAt(t),
   used |-> FALSE]

\* the object literal stored by viewerTokens.set
TokenRecord(t, fileId, filename) ==
  [fileId |-> fileId, filename |-> filename, expiresAt |-> ExpiresAt(t),
   used |-> FALSE]

\* a mint that keeps only its own clean-up pending
generateViewerToken_rescheduling(store, tms, t, token, fileId, filename) ==
  [store |-> MapSet(store, token, TokenRecord(t, fileId, filename)),
   timers |-> {[token |-> token, due |-> TimerDue(t)]}]


\* a mint that schedules no clean-up
generateViewerToken_unscheduled(store, tms, t, token, fileId, filename) ==
  [store |-> MapSet(store, token, TokenRecord(t, fileId, filename)),
   timers |-> tms]

\* generateViewerToken(fileId, filename) at time t, drawing `token`:
\* the store and the pending timers it leaves behind
generateViewerToken(store, tms, t, token, fileId, filename) ==
  [store |-> MapSet(store, token, TokenRecord(t, fileId, filename)),
   timers |-> tms \cup {[token |-> token, due |-> TimerDue(t)]}]

\* a callback that resets the store when its record is no longer there
TimerCallback_resetting(store, token) ==
  IF MapHas(store, token) THEN MapDelete(store, token) ELSE EmptyMap

\* a callback that leaves the record where it is
TimerCallback_lazy(store, token) == store

\* the setTimeout callback: viewerTokens.delete(token)
TimerCallback(store, token) == MapDelete(store, token)

\* an expiry test that never fires
IsExpired_never(t, tokenData) == FALSE

\* Date.now() > tokenData.expiresAt
IsExpired(t, tokenData) == t > tokenData.expiresAt

NoData == [fileId |-> Undefined, filename |-> Undefined, expiresAt |-> 0,
           used |-> FALSE]

\* a validation without the `if (!tokenData)` guard
validateViewerToken_noNullCheck(store, t, token) ==
  IF ~MapHas(store, token)
  THEN [ok |-> TRUE, kind |-> "Ok", data |-> NoData, store |-> store]
  ELSE IF IsExpired(t, store[token])
  THEN [ok |-> FALSE, kind |-> "Expired", data |-> NoData,
        store |-> MapDelete(store, token)]
  ELSE [ok |-> TRUE, kind |-> "Ok", data |-> store[token], store |-> store]

\* a validation that renews the token's lifetime each time it succeeds
validateViewerToken_sliding(store, t, token) ==
  IF ~MapHas(store, token)
  THEN [ok |-> FALSE, kind |-> "NotFound", data |-> NoData, store |-> store]
  ELSE IF IsExpired(t, store[token])
  THEN [ok |-> FALSE, kind |-> "Expired", data |-> NoData,
        store |-> MapDelete(store, token)]
  ELSE [ok |-> TRUE, kind |-> "Ok", data |-> store[token],
        store |-> [store EXCEPT ![token].expiresAt = ExpiresAt(t)]]

\* a validation that consumes the token: the record is deleted on success
validateViewerToken_singleUse(store, t, token) ==
  IF ~MapHas(store, token)
  THEN [ok |-> FALSE, kind |-> "NotFound", data |-> NoData, store |-> store]
  ELSE IF IsExpired(t, store[token])
  THEN [ok |-> FALSE, kind |-> "Expired", data |-> NoData,
        store |-> MapDelete(store, token)]
  ELSE [ok |-> TRUE, kind |-> "Ok", data |-> store[token],
        store |-> MapDelete(store, token)]

\* a validation that marks the record as used when it succeeds
validateViewerToken_markUsed(store, t, token) ==
  IF ~MapHas(store, token)
  THEN [ok |-> FALSE, kind |-> "NotFound", data |-> NoData, store |-> store]
  ELSE IF IsExpired(t, store[token])
  THEN [ok |-> FALSE, kind |-> "Expired", data |-> NoData,
        store |-> MapDelete(store, token)]
  ELSE [ok |-> TRUE, kind |-> "Ok", data |-> store[token],
        store |-> [store EXCEPT ![token].used = TRUE]]


\* validateViewerToken(token) at time t: the value returned (ok = non-null),
\* the branch taken, and the store it leaves behind
validateViewerToken(store, t, token) ==
  IF ~MapHas(store, token)
  THEN [ok |-> FALSE, kind |-> "NotFound", data |-> NoData, store |-> store]
  ELSE IF IsExpired(t, store[token])
  THEN [ok |-> FALSE, kind |-> "Expired", data |-> NoData,
        store |-> MapDelete(store, token)]
  ELSE [ok |-> TRUE, kind |-> "Ok", data |-> store[token], store |-> store]

(* ---------------------- the call-site token checks --------------------- *)

\* a check that revokes the token when it is presented for another file
fileAuth_revoking(store, t, token, fileId) ==
  IF token = NoToken
  THEN [ok |-> FALSE, kind |-> "MissingToken", data |-> NoData, store |-> store]
  ELSE LET r == validateViewerToken(store, t, token) IN
       IF ~r.ok THEN r
       ELSE IF StrictNotEqual(r.data.fileId, fileId)
       THEN [ok |-> FALSE, kind |-> "Mismatch", data |-> NoData,
             store |-> MapDelete(r.store, token)]
       ELSE r

\* GET /api/file/:fileId, the two guards before the try block
fileAuth(store, t, token, fileId) ==
  IF token = NoToken
  THEN [ok |-> FALSE, kind |-> "MissingToken", data |-> NoData, store |-> store]
  ELSE LET r == validateViewerToken(store, t, token) IN
       IF ~r.ok THEN r
       ELSE IF StrictNotEqual(r.data.fileId, fileId)
       THEN [ok |-> FALSE, kind |-> "Mismatch", data |-> NoData,
             store |-> r.store]
       ELSE r

\* a viewer check that revokes the token presented for another file
viewerAuth_revoking(store, t, token, fileId) ==
  IF token = NoToken
  THEN [ok |-> FALSE, kind |-> "MissingToken", data |-> NoData, store |-> store]
  ELSE LET r == validateViewerToken(store, t, token) IN
       IF ~r.ok THEN r
       ELSE IF StrictNotEqual(r.data.fileId, fileId)
       THEN [ok |-> FALSE, kind |-> "Mismatch", data |-> NoData,
             store |-> MapDelete(r.store, token)]
       ELSE r


\* GET /viewer/:fileId, the two guards before the page is built
viewerAuth(store, t, token, fileId) ==
  IF token = NoToken
  THEN [ok |-> FALSE, kind |-> "MissingToken", data |-> NoData, store |-> store]
  ELSE LET r == validateViewerToken(store, t, token) IN
       IF ~r.ok THEN r
       ELSE IF StrictNotEqual(r.data.fileId, fileId)
       THEN [ok |-> FALSE, kind |-> "Mismatch", data |-> NoData,
             store |-> r.store]
       ELSE r

\* POST /api/hubspot/upload, the two token guards
uploadAuth(store, t, token) ==
  IF token = NoToken
  THEN [ok |-> FALSE, kind |-> "MissingToken", data |-> NoData, store |-> store]
  ELSE validateViewerToken(store, t, token)

(* ------------------------------- strings ------------------------------- *)

\* the character of s at position i, as a string of length 1
CharAt(s, i) == SubSeq(s, i, i)

\* String.prototype.includes
Includes(s, sub) ==
  \E i \in 1..(Len(s) - Len(sub) + 1) : SubSeq(s, i, i + Len(sub) - 1) = sub

StartsWith(s, p) == Len(s) >= Len(p) /\ SubSeq(s, 1, Len(p)) = p

EndsWith(s, p) ==
  Len(s) >= Len(p) /\ SubSeq(s, Len(s) - Len(p) + 1, Len(s)) = p

UpperCase == "ABCDEFGHIJKLMNOPQRSTUVWXYZ"
LowerCase == "abcdefghijklmnopqrstuvwxyz"

LowerChar(c) ==
  IF Includes(UpperCase, c)
  THEN CharAt(LowerCase, CHOOSE i \in 1..Len(UpperCase) :
                           CharAt(UpperCase, i) = c)
  ELSE c

RECURSIVE ToLower(_)
\* the i flag of the patterns: matching is done on the lower-cased text
ToLower(s) ==
  IF s = "" THEN ""
  ELSE LowerChar(CharAt(s, 1)) \o ToLower(SubSeq(s, 2, Len(s)))

(* --------------------------- corsOptions.origin ------------------------ *)

\* the origin callback of the cors middleware, '' standing for a request
\* without Origin header: TRUE for callback(null, true), FALSE for
\* callback(new Error('Not allowed by CORS'))
corsOrigin(origin) ==
  IF origin = "" THEN TRUE
  ELSE IF \/ Includes(origin, "hubspot.com")
          \/ Includes(origin, "hubspotusercontent")
          \/ Includes(origin, "hs-sites.com")
          \/ Includes(origin, "hubspotpreview")
  THEN TRUE
  ELSE IF \/ Includes(origin, "azurewebsites.net")
          \/ Includes(origin, "nutrient-hubspot-backend")
  THEN TRUE
  ELSE IF Includes(origin, "localhost") \/ Includes(origin, "127.0.0.1")
  THEN TRUE
  ELSE FALSE

(* ------------------------ validateHubSpotRequest ----------------------- *)

\* [a-z0-9-]
IsLabelChar(c) == Includes("abcdefghijklmnopqrstuvwxyz0123456789-", c)

\* ([a-z0-9-]+\.)* matches the whole of p
IsSubdomainPrefix(p) ==
  \/ p = ""
  \/ /\ EndsWith(p, ".")
     /\ \A i \in 1..Len(p) :
          IF CharAt(p, i) = "."
          THEN i > 1 /\ CharAt(p, i - 1) # "."
          ELSE IsLabelChar(CharAt(p, i))

\* /^https?:\/\/([a-z0-9-]+\.)*<domain>$/i .test(s)
MatchesPattern(s, domain) ==
  \E scheme \in {"http://", "https://"} :
    /\ StartsWith(ToLower(s), scheme)
    /\ LET rest == SubSeq(ToLower(s), Len(scheme) + 1, Len(s)) IN
       /\ EndsWith(rest, domain)
       /\ IsSubdomainPrefix(SubSeq(rest, 1, Len(rest) - Len(domain)))

\* the domains of HUBSPOT_DOMAIN_PATTERNS
HUBSPOT_DOMAINS ==
  {"hubspot.com", "hubspotusercontent.com", "hs-sites.com",
   "hubspotpreview.com"}

\* HUBSPOT_DOMAIN_PATTERNS.some(pattern => pattern.test(s))
MatchesHubSpotPattern(s) ==
  \E domain \in HUBSPOT_DOMAINS : MatchesPattern(s, domain)

\* `${refererUrl.protocol}//${refererUrl.host}` of new URL(referer) for an
\* http(s) URL, '' when the header is absent or new URL throws
RefererDomain(referer) ==
  IF \E scheme \in {"http://", "https://"} :
       StartsWith(referer, scheme) /\ Len(referer) > Len(scheme)
  THEN LET scheme == IF StartsWith(referer, "https://") THEN "https://"
                     ELSE "http://"
           rest == SubSeq(referer, Len(scheme) + 1, Len(referer))
           ends == {i \in 1..Len(rest) : CharAt(rest, i) \in {"/", "?", "#"}}
           stop == IF ends = {} THEN Len(rest) + 1
                   ELSE CHOOSE i \in ends : \A j \in ends : i <= j
       IN IF stop = 1 THEN "" ELSE scheme \o SubSeq(rest, 1, stop - 1)
  ELSE ""

\* /hubspot/i.test(userAgent)
UserAgentIsHubSpot(ua) == Includes(ToLower(ua), "hubspot")

\* the Origin, Referer and User-Agent headers of a request ('' = absent)
RequestHeaders ==
  { [origin |-> "https://app.hubspot.com", referer |-> "", ua |-> "Mozilla/5.0"],
    [origin |-> "", referer |-> "", ua |-> "curl/8.0"],
    [origin |-> "https://evil.example", referer |-> "", ua |-> "Mozilla/5.0"],
    [origin |-> "", referer |-> "https://evil.example/page",
     ua |-> "HubSpot Connect 2.0"],
    [origin |-> "https://hubspot.com.attacker.example", referer |-> "",
     ua |-> "Mozilla/5.0"] }

\* the requests the cors middleware lets through to the routes
Admitted == {h \in RequestHeaders : corsOrigin(h.origin)}

\* TRUE when the middleware calls next(), FALSE when it answers 401
validateHubSpotRequest(h) ==
  LET isFromHubSpot ==
        \/ MatchesHubSpotPattern(h.origin)
        \/ MatchesHubSpotPattern(RefererDomain(h.referer))
        \/ (h.ua # "" /\ UserAgentIsHubSpot(h.ua))
  IN IF isFromHubSpot THEN TRUE
     ELSE IF h.origin = "" /\ h.referer = "" THEN TRUE
     ELSE FALSE

\* the admitted requests that validateHubSpotRequest passes on to the handler
Trusted == {h \in Admitted : validateHubSpotRequest(h)}

(* ------------------------------- state --------------------------------- *)

\* no request is suspended on an await.  The field hubspot is bookkeeping
\* for the two handlers that mint while suspended (listing, CRM card): what
\* validateHubSpotRequest answers for the headers of the suspended request.
Idle ==
  [ep |-> "none", pc |-> "", token |-> NoToken, fileId |-> Undefined,
   todo |-> <<>>, out |-> <<>>, hubspot |-> TRUE]

ValidationOps == {"file", "viewer", "upload"}

Min(a, b) == IF a < b THEN a ELSE b

\* what the last step did: the handler, the token it was given or minted,
\* the branch taken, the HTTP status sent (0 = none yet), and of the body
\* sent the error text ("" = none), the expiresIn field (0 = none), the
\* entries of a listing or the actions of a card, each with the token it
\* carries (files), and the success flag ("" = the body has none)
Step(op, token, kind, status) ==
  [op |-> op, token |-> token, kind |-> kind, status |-> status,
   error |-> "", expiresIn |-> 0, files |-> <<>>, success |-> ""]

\* res.json({ success: ..., ... })
Json(step, success) == [step EXCEPT !.success = success]

\* `${x}` in a template literal
TemplateString(x) == IF x = Undefined THEN "undefined" ELSE x.v

\* a handler that tells the caller why the token was refused
fileDenied_telling(kind) ==
  [status |-> 401,
   error |-> IF kind = "MissingToken" THEN "Missing authentication token"
             ELSE IF kind = "Expired" THEN "Token expired"
             ELSE "Invalid or expired token"]

\* GET /api/file/:fileId: the two 401 answers (status, error text of the
\* JSON body), by the branch that refused the token
fileDenied(kind) ==
  [status |-> 401,
   error |-> IF kind = "MissingToken" THEN "Missing authentication token"
             ELSE "Invalid or expired token"]

\* GET /viewer/:fileId: the two 401 pages (status, text of the paragraph)
viewerDenied(kind) ==
  [status |-> 401,
   error |-> IF kind = "MissingToken"
             THEN "Missing authentication token. Please access this page from HubSpot."
             ELSE "Invalid or expired token. Tokens are valid for 15 minutes."]

\* an upload handler that lets a request without a token through
uploadDenied_open(kind) ==
  [status |-> IF kind = "MissingToken" THEN 200 ELSE 401,
   error |-> IF kind = "MissingToken" THEN "Missing authentication token"
             ELSE "Invalid or expired token"]

\* POST /api/hubspot/upload: the two 401 answers (status, error text)
uploadDenied(kind) ==
  [status |-> 401,
   error |-> IF kind = "MissingToken" THEN "Missing authentication token"
             ELSE "Invalid or expired token"]

\* the step of a handler that refuses the token: res.status(401) and the body
Denied(op, token, kind, answer) ==
  [Step(op, token, kind, answer.status) EXCEPT !.error = answer.error]

\* expiresIn: 900 of the body of POST /api/generate-viewer-token
EXPIRES_IN == 900

\* bookkeeping only: when each token was minted
Issue(m, token, t) == MapSet(m, token, t)

\* bookkeeping only: which path took a record out of the store, the timer
\* callback ("timer") or the expiry branch of validateViewerToken ("validate")
Removal(m, token, kind) ==
  IF kind = "Expired" THEN MapSet(m, token, "validate") ELSE m

Init ==
  /\ now = 0
  /\ viewerTokens = EmptyMap
  /\ timers = {}
  /\ issuedAt = EmptyMap
  /\ removedBy = EmptyMap
  /\ inflight = Idle
  /\ last = Step("start", NoToken, "", 0)

(* ------------------------- clock and timers ---------------------------- *)

\* time passes
Tick ==
  /\ \E t \in Instants : t > now /\ now' = t
  /\ last' = Step("tick", NoToken, "", 0)
  /\ UNCHANGED <<viewerTokens, timers, issuedAt, removedBy, inflight>>

\* the callback of a due timer runs (at its due time or any time later)
TimerFire(tm) ==
  /\ tm \in timers
  /\ now >= tm.due
  /\ viewerTokens' = TimerCallback(viewerTokens, tm.token)
  /\ timers' = timers \ {tm}
  /\ removedBy' = IF MapHas(viewerTokens, tm.token)
                  THEN MapSet(removedBy, tm.token, "timer") ELSE removedBy
  /\ last' = Step("timer", tm.token, "", 0)
  /\ UNCHANGED <<now, issuedAt, inflight>>

(* ------------------------------ app.use(cors) ------------------------- *)

\* a request, to whichever route, whose Origin the callback refuses: the
\* middleware passes the error on, no handler runs, Express answers 500
CorsRejected ==
  /\ \E h \in RequestHeaders : ~corsOrigin(h.origin)
  /\ last' = Step("cors", NoToken, "Rejected", 500)
  /\ UNCHANGED <<now, viewerTokens, timers, issuedAt, removedBy, inflight>>

(* ------------------- POST /api/generate-viewer-token ------------------- *)

\* if (!fileId)
MissingFileId(fileId) == ~Truthy(fileId)

\* the middleware answers 401
GenerateTokenRejected ==
  /\ \E h \in Admitted : h \notin Trusted
  /\ last' = Step("generate", NoToken, "Rejected", 401)
  /\ UNCHANGED <<now, viewerTokens, timers, issuedAt, removedBy, inflight>>

\* the middleware calls next(): the handler, with req.body = {fileId, filename}
GenerateTokenRequest(fileId, filename) ==
  /\ \E h \in Admitted : h \in Trusted
  /\ IF MissingFileId(fileId)
     THEN /\ last' = Step("generate", NoToken, "MissingFileId", 400)
          /\ UNCHANGED <<now, viewerTokens, timers, issuedAt, removedBy,
                         inflight>>
     ELSE \E token \in RandomBytes(DOMAIN issuedAt) :
            LET g == generateViewerToken(viewerTokens, timers, now, token,
                                         fileId,
                                         OrElse(filename, Str("document")))
            IN /\ viewerTokens' = g.store
               /\ timers' = g.timers
               /\ issuedAt' = Issue(issuedAt, token, now)
               /\ last' = [Step("generate", token, "Minted", 200)
                             EXCEPT !.expiresIn = EXPIRES_IN]
               /\ UNCHANGED <<now, removedBy, inflight>>

(* -------------------------- GET /viewer/:fileId ------------------------ *)

ViewerRequest(token, fileId) ==
  LET r == viewerAuth(viewerTokens, now, token, fileId) IN
  /\ viewerTokens' = r.store
  /\ removedBy' = Removal(removedBy, token, r.kind)
  /\ last' = IF r.ok THEN Step("viewer", token, r.kind, 200)
              ELSE Denied("viewer", token, r.kind, viewerDenied(r.kind))
  /\ UNCHANGED <<now, timers, issuedAt, inflight>>

(* ------------------------- GET /api/file/:fileId ----------------------- *)

\* the handler up to its first await
FileRequest(token, fileId) ==
  LET r == fileAuth(viewerTokens, now, token, fileId) IN
  /\ inflight = Idle
  /\ viewerTokens' = r.store
  /\ IF r.ok
     THEN /\ inflight' = [Idle EXCEPT !.ep = "file", !.pc = "meta",
                                      !.token = token, !.fileId = fileId]
          /\ last' = Step("file", token, r.kind, 0)
     ELSE /\ inflight' = Idle
          /\ last' = Denied("file", token, r.kind, fileDenied(r.kind))
  /\ removedBy' = Removal(removedBy, token, r.kind)
  /\ UNCHANGED <<now, timers, issuedAt>>

\* a handler that looks the token up again before each further upstream call
FileUpstream_rechecking(ok) ==
  /\ inflight.ep = "file"
  /\ IF ~ok \/ ~validateViewerToken(viewerTokens, now, inflight.token).ok
     THEN /\ inflight' = Idle
          /\ last' = Step("fileUpstream", inflight.token, inflight.pc, 500)
     ELSE IF inflight.pc = "meta"
     THEN /\ inflight' = [inflight EXCEPT !.pc = "signed"]
          /\ last' = Step("fileUpstream", inflight.token, inflight.pc, 0)
     ELSE IF inflight.pc = "signed"
     THEN /\ inflight' = [inflight EXCEPT !.pc = "content"]
          /\ last' = Step("fileUpstream", inflight.token, inflight.pc, 0)
     ELSE /\ inflight' = Idle
          /\ last' = Step("fileUpstream", inflight.token, inflight.pc, 200)
  /\ UNCHANGED <<now, viewerTokens, timers, issuedAt, removedBy>>

\* an upstream call of the handler settles (metadata, then signed URL, then
\* content); a rejected call, or HTML where content was expected, gives 500
FileUpstream(ok) ==
  /\ inflight.ep = "file"
  /\ IF ~ok
     THEN /\ inflight' = Idle
          /\ last' = Step("fileUpstream", inflight.token, inflight.pc, 500)
     ELSE IF inflight.pc = "meta"
     THEN /\ inflight' = [inflight EXCEPT !.pc = "signed"]
          /\ last' = Step("fileUpstream", inflight.token, inflight.pc, 0)
     ELSE IF inflight.pc = "signed"
     THEN /\ inflight' = [inflight EXCEPT !.pc = "content"]
          /\ last' = Step("fileUpstream", inflight.token, inflight.pc, 0)
     ELSE /\ inflight' = Idle
          /\ last' = Step("fileUpstream", inflight.token, inflight.pc, 200)
  /\ UNCHANGED <<now, viewerTokens, timers, issuedAt, removedBy>>

(* ------------------- GET /api/contact-files/:contactId ----------------- *)

\* hs_attachment_ids.split(';').filter(id => id.trim()), over all notes:
\* the file ids the handler goes on to look up
AttachmentLists == {<<>>, <<"99">>, <<"42", "99">>}

\* the ids that occur in them
AttachmentIds == {"42", "99"}

\* fileResponse.data for the look-up of fileId: a HubSpot file object, or a
\* body without an id field
UpstreamFiles(fileId) ==
  { [id |-> Str(fileId), name |-> Str("a.pdf")],
    [id |-> Undefined, name |-> Str("a.pdf")],
    [id |-> Str(fileId), name |-> Undefined] }

\* an entry that carries a token of the store instead of the one just minted
ListEntry_stale(fileData, viewerToken) == [id |-> fileData.id, token |-> 1]

\* the object pushed to allFiles: its id and its viewerToken
ListEntry(fileData, viewerToken) ==
  [id |-> fileData.id, token |-> viewerToken]

\* the middleware answers 401
ContactFilesRejected ==
  /\ inflight = Idle
  /\ \E h \in Admitted : h \notin Trusted
  /\ last' = Step("list", NoToken, "Rejected", 401)
  /\ UNCHANGED <<now, viewerTokens, timers, issuedAt, removedBy, inflight>>

\* the middleware calls next(): the handler up to its first await
ContactFilesRequest ==
  /\ inflight = Idle
  /\ \E h \in Admitted : h \in Trusted
  /\ inflight' = [Idle EXCEPT !.ep = "list", !.pc = "notes"]
  /\ last' = Step("list", NoToken, "", 0)
  /\ UNCHANGED <<now, viewerTokens, timers, issuedAt, removedBy>>

\* the association look-up fails: the outer catch answers 500
ContactFilesNotesFail ==
  /\ inflight.ep = "list"
  /\ inflight.pc = "notes"
  /\ inflight' = Idle
  /\ last' = Step("listNotes", NoToken, "Error", 500)
  /\ UNCHANGED <<now, viewerTokens, timers, issuedAt, removedBy>>

\* the note look-ups settle and give the attachment ids
ContactFilesNotes(ids) ==
  /\ inflight.ep = "list"
  /\ inflight.pc = "notes"
  /\ IF ids = <<>>
     THEN /\ inflight' = Idle
          /\ last' = Step("listNotes", NoToken, "Empty", 200)
     ELSE /\ inflight' = [inflight EXCEPT !.pc = "file", !.todo = ids]
          /\ last' = Step("listNotes", NoToken, "", 0)
  /\ UNCHANGED <<now, viewerTokens, timers, issuedAt, removedBy>>

\* how the handler goes on once a file look-up has settled: to the next
\* look-up, or, after the last one, to res.json
ContactFilesContinue(out, token, kind) ==
  IF Tail(inflight.todo) = <<>>
  THEN /\ inflight' = Idle
       /\ last' = [Json(Step("listFile", token, kind, 200), "true")
                     EXCEPT !.files = out]
  ELSE /\ inflight' = [inflight EXCEPT !.todo = Tail(inflight.todo),
                                       !.out = out]
       /\ last' = Step("listFile", token, kind, 0)

\* a file look-up throws: the file is skipped
ContactFilesFileFail ==
  /\ inflight.ep = "list"
  /\ inflight.pc = "file"
  /\ ContactFilesContinue(inflight.out, NoToken, "Skipped")
  /\ UNCHANGED <<now, viewerTokens, timers, issuedAt, removedBy>>

\* the look-up of fileId gives fileData
ContactFilesFile(fileId, fileData) ==
  /\ inflight.ep = "list"
  /\ inflight.pc = "file"
  /\ Head(inflight.todo) = fileId
  /\ \E token \in RandomBytes(DOMAIN issuedAt) :
       LET id == fileData.id
           g == generateViewerToken(viewerTokens, timers, now, token, id,
                                    fileData.name)
       IN /\ viewerTokens' = g.store
          /\ timers' = g.timers
          /\ issuedAt' = Issue(issuedAt, token, now)
          /\ ContactFilesContinue(
               Append(inflight.out, ListEntry(fileData, token)),
               token, "Minted")
  /\ UNCHANGED <<now, removedBy>>

(* --------------------------- POST /api/crm-card ------------------------ *)

CARD_MAX_ACTIONS == 10

\* entries of response.data.results of the file search
SearchResults ==
  { [id |-> Str("42"), name |-> Str("a.pdf"), extension |-> "pdf"],
    [id |-> Str("99"), name |-> Str("a.pdf"), extension |-> "PDF"],
    [id |-> Str("99"), name |-> Undefined, extension |-> "pdf"],
    [id |-> Undefined, name |-> Str("a.pdf"), extension |-> "pdf"],
    [id |-> Str("42"), name |-> Str("a.pdf"), extension |-> "txt"] }

SearchLists ==
  {<<>>} \cup {<<a>> : a \in SearchResults}
         \cup {<<a, b>> : a \in SearchResults, b \in SearchResults}

\* f.name && (f.extension === 'pdf' || f.extension === 'PDF')
IsPdfWithName(f) == Truthy(f.name) /\ f.extension \in {"pdf", "PDF"}

\* allFiles.filter(...).slice(0, 10)
ContactFilesOf(allFiles) ==
  LET kept == SelectSeq(allFiles, IsPdfWithName)
  IN SubSeq(kept, 1, Min(Len(kept), CARD_MAX_ACTIONS))

\* the n strings randomBytes returns one after another
RandomDraws(used, n) ==
  {d \in [1..n -> Tokens \ used] :
     \A i \in 1..n : d[i] \in RandomBytes(used \cup {d[j] : j \in 1..(i - 1)})}

RECURSIVE MintEach(_, _, _, _, _)
\* contactFiles.map(file => generateViewerToken(file.id, file.name)), in order
MintEach(store, tms, t, files, draws) ==
  IF files = <<>> THEN [store |-> store, timers |-> tms]
  ELSE LET g == generateViewerToken(store, tms, t, Head(draws),
                                    Head(files).id, Head(files).name)
       IN MintEach(g.store, g.timers, t, Tail(files), Tail(draws))

\* the action built for file: the file id in the path of its uri, as the
\* viewer route will read it from req.params, and the token in its query
CardAction(file, viewerToken) ==
  [id |-> Str(TemplateString(file.id)), token |-> viewerToken]

\* contactFiles.map(file => ({ ..., uri: ... })), with the tokens drawn
CardActions(files, draws) ==
  [i \in 1..Len(files) |-> CardAction(files[i], draws[i])]

RECURSIVE IssueEach(_, _, _)
IssueEach(m, t, draws) ==
  IF draws = <<>> THEN m
  ELSE IssueEach(Issue(m, Head(draws), t), t, Tail(draws))

\* the handler up to its await, for a request with headers h: the route has
\* no middleware and the handler reads no header
CrmCardRequest(h, hasContactId) ==
  /\ inflight = Idle
  /\ h \in Admitted
  /\ IF ~hasContactId
     THEN /\ inflight' = Idle
          /\ last' = Step("card", NoToken, "NoContactId", 200)
     ELSE /\ inflight' = [Idle EXCEPT !.ep = "card", !.pc = "search",
                                      !.hubspot = (h \in Trusted)]
          /\ last' = Step("card", NoToken, "", 0)
  /\ UNCHANGED <<now, viewerTokens, timers, issuedAt, removedBy>>

\* the file search fails: the catch answers with the error card
CrmCardSearchFail ==
  /\ inflight.ep = "card"
  /\ inflight' = Idle
  /\ last' = Step("cardSearch", NoToken, "Error", 200)
  /\ UNCHANGED <<now, viewerTokens, timers, issuedAt, removedBy>>

\* the file search settles: the card is built and sent
CrmCardSearch(allFiles) ==
  /\ inflight.ep = "card"
  /\ inflight' = Idle
  /\ LET files == ContactFilesOf(allFiles) IN
     \E draws \in RandomDraws(DOMAIN issuedAt, Len(files)) :
       LET g == MintEach(viewerTokens, timers, now, files, draws) IN
       /\ viewerTokens' = g.store
       /\ timers' = g.timers
       /\ issuedAt' = IssueEach(issuedAt, now, draws)
       /\ last' = [Step("cardSearch", NoToken, "Card", 200)
                     EXCEPT !.files = CardActions(files, draws)]
  /\ UNCHANGED <<now, removedBy>>

(* ------------------------ POST /api/hubspot/upload --------------------- *)

\* req.body.fileId of the multipart form: a string, or absent
UploadFileIds == {Str("99"), Undefined}

\* a handler that reports success whatever the upstream call did
uploadOutcome_optimistic(ok) == [status |-> 200, success |-> "true"]

\* the answer once the upstream call has settled: res.json({success: true,
\* ...}) after it returned, the catch's 500 with success: false after it threw
uploadOutcome(ok) ==
  IF ok THEN [status |-> 200, success |-> "true"]
  ELSE [status |-> 500, success |-> "false"]

\* the handler up to its await
UploadRequest(token, fileId, hasFile) ==
  LET r == uploadAuth(viewerTokens, now, token) IN
  /\ inflight = Idle
  /\ viewerTokens' = r.store
  /\ IF ~r.ok
     THEN /\ inflight' = Idle
          /\ last' = Json(Denied("upload", token, r.kind,
                                 uploadDenied(r.kind)), "false")
     ELSE IF ~hasFile
     THEN /\ inflight' = Idle
          /\ last' = Json(Step("upload", token, r.kind, 400), "false")
     ELSE IF Truthy(fileId)
     THEN /\ inflight' = [Idle EXCEPT !.ep = "upload", !.pc = "replace",
                                      !.token = token, !.fileId = fileId]
          /\ last' = Step("upload", token, r.kind, 0)
     ELSE /\ inflight' = [Idle EXCEPT !.ep = "upload", !.pc = "create",
                                      !.token = token, !.fileId = fileId]
          /\ last' = Step("upload", token, r.kind, 0)
  /\ removedBy' = Removal(removedBy, token, r.kind)
  /\ UNCHANGED <<now, timers, issuedAt>>

\* the replace or upload call settles
UploadUpstream(ok) ==
  /\ inflight.ep = "upload"
  /\ inflight' = Idle
  /\ last' = Json(Step("uploadUpstream", inflight.token, inflight.pc,
                       uploadOutcome(ok).status),
                  uploadOutcome(ok).success)
  /\ UNCHANGED <<now, viewerTokens, timers, issuedAt, removedBy>>

(* --------------------------- specification ----------------------------- *)

Next ==
  \/ Tick
  \/ \E tm \in timers : TimerFire(tm)
  \/ CorsRejected
  \/ GenerateTokenRejected
  \/ \E fileId \in BodyFileIds, filename \in BodyFilenames :
       GenerateTokenRequest(fileId, filename)
  \/ \E token \in PresentedTokens, fileId \in PathFileIds :
       ViewerRequest(token, fileId)
  \/ \E token \in PresentedTokens, fileId \in PathFileIds :
       FileRequest(token, fileId)
  \/ \E ok \in BOOLEAN : FileUpstream(ok)
  \/ ContactFilesRejected
  \/ ContactFilesRequest
  \/ ContactFilesNotesFail
  \/ \E ids \in AttachmentLists : ContactFilesNotes(ids)
  \/ ContactFilesFileFail
  \/ \E fileId \in AttachmentIds :
       \E fileData \in UpstreamFiles(fileId) :
         ContactFilesFile(fileId, fileData)
  \/ \E h \in RequestHeaders, hasContactId \in BOOLEAN :
       CrmCardRequest(h, hasContactId)
  \/ CrmCardSearchFail
  \/ \E allFiles \in SearchLists : CrmCardSearch(allFiles)
  \/ \E token \in PresentedTokens, fileId \in UploadFileIds,
        hasFile \in BOOLEAN : UploadRequest(token, fileId, hasFile)
  \/ \E ok \in BOOLEAN : UploadUpstream(ok)

Spec == Init /\ [][Next]_vars

\* The process stays up: wall-clock time goes on, and the event loop runs
\* the callback of every timer that is due.
FairSpec ==
  /\ Spec
  /\ WF_vars(Tick)
  /\ \A token \in Tokens :
       WF_vars(\E tm \in timers : tm.token = token /\ TimerFire(tm))

(* ---------------------------- process restart -------------------------- *)

\* a store kept across restarts
ModuleLoad_persisting(store) == store

\* const viewerTokens = new Map(): the store of a process that starts, when
\* the process before it ended with `store`
ModuleLoad(store) == EmptyMap

\* bookkeeping only: the records that were in the store when the process ended
RestartRemoval(m, store) ==
  [token \in DOMAIN m \cup DOMAIN store |->
     IF token \in DOMAIN store THEN "restart" ELSE m[token]]

\* the process ends and a new one starts: the module is loaded again, the
\* pending timers and the suspended request of the old process are gone;
\* wall-clock time and the strings randomBytes has returned are not reset
Restart ==
  /\ viewerTokens' = ModuleLoad(viewerTokens)
  /\ timers' = {}
  /\ inflight' = Idle
  /\ removedBy' = RestartRemoval(removedBy, viewerTokens)
  /\ last' = Step("restart", NoToken, "", 0)
  /\ UNCHANGED <<now, issuedAt>>

NextR == Next \/ Restart

\* the server with restarts of its process
RestartSpec == Init /\ [][NextR]_vars

(* ------------------------------ properties ----------------------------- *)

\* the instant at which the token's lifetime of 15 minutes ends
ExpiryOf(token) == issuedAt[token] + TOKEN_TTL_MS

\* some handler checks `token` in this step
ValidationStep(token) ==
  \/ \E fileId \in PathFileIds : ViewerRequest(token, fileId)
  \/ \E fileId \in PathFileIds : FileRequest(token, fileId)
  \/ \E fileId \in UploadFileIds, hasFile \in BOOLEAN :
       UploadRequest(token, fileId, hasFile)

\* validateViewerToken(token) returns, in `store` at time t, a record that
\* carries fileId and filename, and the call-site comparison with fileId passes
AcceptsWith(store, t, token, fileId, filename) ==
  LET r == validateViewerToken(store, t, token) IN
  /\ r.ok
  /\ ~StrictNotEqual(r.data.fileId, fileId)
  /\ r.data.filename = filename
  /\ r.store = store

\* C1: a token validated right after it was minted (same instant, so before
\* expiresAt and before its timer can run) is accepted for the fileId it was
\* minted with, and the record returned carries the fileId and filename that
\* were handed to generateViewerToken; this at each of the three mint points.
C1_ValidRightAfterMint ==
  [][ /\ \A fileId \in BodyFileIds, filename \in BodyFilenames :
           GenerateTokenRequest(fileId, filename) /\ last'.kind = "Minted"
             => AcceptsWith(viewerTokens', now', last'.token, fileId,
                            OrElse(filename, Str("document")))
      /\ \A fileId \in AttachmentIds :
           \A fileData \in UpstreamFiles(fileId) :
             ContactFilesFile(fileId, fileData)
               => AcceptsWith(viewerTokens', now', last'.token,
                              fileData.id, fileData.name)
      /\ \A allFiles \in SearchLists :
           CrmCardSearch(allFiles)
             => LET files == ContactFilesOf(allFiles) IN
                \A draws \in RandomDraws(DOMAIN issuedAt, Len(files)) :
                  \A i \in 1..Len(files) :
                    AcceptsWith(viewerTokens', now', draws[i], files[i].id,
                                files[i].name)
      /\ \A token \in Tokens :
           ValidationStep(token) /\ MapHas(issuedAt, token)
             /\ issuedAt[token] = now
             => last'.kind \in {"Ok", "Mismatch"}
    ]_vars

C1_Witness ==
  /\ last.op \in ValidationOps
  /\ last.kind = "Ok"
  /\ MapHas(issuedAt, last.token)
  /\ issuedAt[last.token] = now

\* C2: GET /viewer/:fileId renders the page, and GET /api/file/:fileId starts
\* its upstream fetch, only when the presented token has a record, the record
\* is not expired (the clock is before its expiresAt) and the record's fileId
\* is the fileId of the path.
C2_PassOnlyIfLiveAndBound ==
  [][ \A token \in PresentedTokens, fileId \in PathFileIds :
        \/ ViewerRequest(token, fileId) /\ last'.status = 200
        \/ FileRequest(token, fileId) /\ inflight'.ep = "file"
        => /\ MapHas(viewerTokens, token)
           /\ now < viewerTokens[token].expiresAt
           /\ viewerTokens[token].fileId = fileId
    ]_vars

\* C3: a record that is in the store when the clock has reached its expiresAt
\* (now >= expiresAt, now = expiresAt included) fails validation as expired,
\* and the validation deletes it.
C3_InvalidFromExpiresAt ==
  \A token \in DOMAIN viewerTokens :
    now >= viewerTokens[token].expiresAt
      => LET r == validateViewerToken(viewerTokens, now, token) IN
         /\ ~r.ok
         /\ r.kind = "Expired"
         /\ ~MapHas(r.store, token)

\* C4 as stated: a validation before expiresAt succeeds; the first validation
\* after expiresAt fails with Expired and removes the record; the validations
\* that follow fail with NotFound.
C4_ExpiredThenNotFound ==
  [][ \A token \in Tokens :
        ValidationStep(token) /\ MapHas(issuedAt, token)
        => LET foundExpiredBefore ==
                 MapHas(removedBy, token) /\ removedBy[token] = "validate"
           IN /\ now < ExpiryOf(token) => last'.kind \in {"Ok", "Mismatch"}
              /\ now > ExpiryOf(token) /\ ~foundExpiredBefore
                   => /\ last'.kind = "Expired"
                      /\ MapHas(viewerTokens, token)
                      /\ ~MapHas(viewerTokens', token)
              /\ now > ExpiryOf(token) /\ foundExpiredBefore
                   => last'.kind = "NotFound"
    ]_vars

\* C4 as amended: a validation before expiresAt succeeds; a validation after
\* expiresAt fails, with Expired and the removal of the record when the record
\* is still in the store, with NotFound when the timer has removed it already;
\* a removed record never comes back, so every later validation of the token
\* fails with NotFound.
C4_ExpiryBoundary ==
  [][ /\ \A token \in Tokens :
           ValidationStep(token) /\ MapHas(issuedAt, token)
           => /\ now < ExpiryOf(token)
                   => /\ last'.kind \in {"Ok", "Mismatch"}
                      /\ viewerTokens' = viewerTokens
              /\ now > ExpiryOf(token) /\ MapHas(viewerTokens, token)
                   => /\ last'.kind = "Expired"
                      /\ viewerTokens' = MapDelete(viewerTokens, token)
              /\ now > ExpiryOf(token) /\ ~MapHas(viewerTokens, token)
                   => /\ last'.kind = "NotFound"
                      /\ MapHas(removedBy, token)
                      /\ viewerTokens' = viewerTokens
      /\ \A token \in DOMAIN issuedAt :
           ~MapHas(viewerTokens, token) => ~MapHas(viewerTokens', token)
    ]_vars

C4_Witness ==
  /\ last.op \in ValidationOps
  /\ last.kind = "NotFound"
  /\ MapHas(removedBy, last.token)
  /\ removedBy[last.token] = "validate"
  /\ now = ExpiryOf(last.token) + 1

\* C5: GET /viewer and GET /api/file, given a token whose record is in the
\* store and not yet at expiresAt together with another fileId than the
\* record's, answer 401 and leave the store as it was; the same token is
\* accepted right afterwards for the fileId of its record.
C5_MismatchLeavesTokenValid ==
  [][ \A token \in Tokens, fileId \in PathFileIds :
        /\ ViewerRequest(token, fileId) \/ FileRequest(token, fileId)
        /\ MapHas(viewerTokens, token)
        /\ now < viewerTokens[token].expiresAt
        /\ viewerTokens[token].fileId # fileId
        => /\ last'.status = 401
           /\ last'.kind = "Mismatch"
           /\ viewerTokens' = viewerTokens
           /\ timers' = timers
           /\ inflight' = inflight
           /\ \A other \in PathFileIds :
                other = viewerTokens[token].fileId
                  => /\ viewerAuth(viewerTokens', now', token, other).ok
                     /\ fileAuth(viewerTokens', now', token, other).ok
    ]_vars

C5_Witness ==
  /\ last.op \in {"viewer", "file"}
  /\ last.kind = "Mismatch"
  /\ MapHas(viewerTokens, last.token)
  /\ now < viewerTokens[last.token].expiresAt
  /\ \E fileId \in PathFileIds :
       viewerAuth(viewerTokens, now, last.token, fileId).ok

\* C6: a token string that was never issued fails the token check of every
\* handler, for every fileId, as NotFound and with 401, and the check leaves
\* the store and the timers as they were.
C6_NeverIssuedFails ==
  [][ \A token \in Tokens :
        ValidationStep(token) /\ ~MapHas(issuedAt, token)
        => /\ last'.kind = "NotFound"
           /\ last'.status = 401
           /\ viewerTokens' = viewerTokens
           /\ timers' = timers
           /\ inflight' = inflight
    ]_vars

C6_Witness ==
  /\ last.op \in ValidationOps
  /\ last.kind = "NotFound"
  /\ last.token \in Tokens \ DOMAIN issuedAt
  /\ DOMAIN viewerTokens # {}

\* C7: a mint returns a token under which no record is stored yet, adds one
\* record under it and leaves every other record as it was; and a step that
\* takes a record out of the store (expiry found by a validation, or a timer)
\* takes out that one record only: every other record, minted for the same
\* fileId or not, stays as it was and goes on validating.
C7_MintsAreIndependent ==
  [][ /\ last'.kind = "Minted"
        => /\ ~MapHas(viewerTokens, last'.token)
           /\ MapHas(viewerTokens', last'.token)
           /\ \A token \in DOMAIN viewerTokens :
                /\ MapHas(viewerTokens', token)
                /\ viewerTokens'[token] = viewerTokens[token]
      /\ \A gone, kept \in DOMAIN viewerTokens :
           gone # kept /\ ~MapHas(viewerTokens', gone)
           => /\ MapHas(viewerTokens', kept)
              /\ viewerTokens'[kept] = viewerTokens[kept]
              /\ validateViewerToken(viewerTokens', now', kept).ok
                   = validateViewerToken(viewerTokens, now, kept).ok
    ]_vars

C7_Witness ==
  /\ last.op \in ValidationOps \cup {"timer"}
  /\ MapHas(removedBy, last.token)
  /\ ~MapHas(viewerTokens, last.token)
  /\ \E kept \in DOMAIN viewerTokens :
       /\ kept # last.token
       /\ validateViewerToken(viewerTokens, now, kept).ok

\* C8: the token check of a handler changes the store in one case only: when
\* it finds the record expired it deletes that record.  In every other case
\* the store (keys, fileId, filename, expiresAt, used) is left as it was, and
\* no check ever touches the pending timers.
C8_ValidationIsPure ==
  [][ \A token \in PresentedTokens :
        ValidationStep(token)
        => /\ timers' = timers
           /\ IF last'.kind = "Expired"
              THEN /\ MapHas(viewerTokens, token)
                   /\ now >= viewerTokens[token].expiresAt
                   /\ viewerTokens' = MapDelete(viewerTokens, token)
              ELSE viewerTokens' = viewerTokens
    ]_vars

C8_Witness ==
  /\ last.op \in ValidationOps
  /\ last.kind = "Ok"
  /\ Cardinality(DOMAIN viewerTokens) >= 2

C10_NoRecordWithoutFileId ==
  [][ /\ \A fileId \in BodyFileIds, filename \in BodyFilenames :
           GenerateTokenRequest(fileId, filename) /\ ~Truthy(fileId)
           => /\ last'.status = 400
              /\ viewerTokens' = viewerTokens
              /\ timers' = timers
      /\ \A token \in DOMAIN viewerTokens' :
           Truthy(viewerTokens'[token].fileId)
    ]_vars

\* the record of token in the store is live: present and before its expiresAt
Live(token) ==
  /\ MapHas(viewerTokens, token)
  /\ now < viewerTokens[token].expiresAt

\* C11: POST /api/hubspot/upload carrying a file goes on to the upstream
\* replace call (body fileId given) or create call (no body fileId) whenever
\* the presented token is live, whatever fileId its record is bound to and
\* whatever fileId the body names; and with a token that is not live (none,
\* never issued, removed, or at or past its expiresAt) it answers 401 and
\* starts no upstream call.
C11_UploadNeedsOnlyLiveToken ==
  [][ \A token \in PresentedTokens, fileId \in UploadFileIds,
         hasFile \in BOOLEAN :
        UploadRequest(token, fileId, hasFile)
        => /\ token # NoToken /\ Live(token) /\ hasFile
                => /\ inflight'.ep = "upload"
                   /\ inflight'.pc = IF Truthy(fileId) THEN "replace"
                                     ELSE "create"
           /\ ~(token # NoToken /\ Live(token))
                => /\ inflight' = Idle
                   /\ last'.status = 401
    ]_vars

\* the ways a handler refuses a token
FailureKinds == {"MissingToken", "NotFound", "Expired", "Mismatch"}

TokenRefusals == {"NotFound", "Expired", "Mismatch"}

\* the 401 answer of call site op for a refusal of the given kind
DeniedAt(op, kind) ==
  CASE op = "file" -> fileDenied(kind)
    [] op = "viewer" -> viewerDenied(kind)
    [] op = "upload" -> uploadDenied(kind)

C14_MintOnlyAfterHubSpotCheck ==
  [][ /\ GenerateTokenRejected => viewerTokens' = viewerTokens
      /\ ContactFilesRejected => viewerTokens' = viewerTokens
      /\ \A fileId \in AttachmentIds :
           \A fileData \in UpstreamFiles(fileId) :
             ContactFilesFile(fileId, fileData) => inflight.hubspot
      /\ \A allFiles \in SearchLists :
           CrmCardSearch(allFiles) /\ viewerTokens' # viewerTokens
             => inflight.hubspot
    ]_vars

\* C15: every record in the store has expiresAt equal to the time of its mint
\* plus 15 minutes, whichever call site minted it and whatever the arguments;
\* its pending deletion is due 15 minutes after the mint as well; and the
\* expiresIn that POST /api/generate-viewer-token returns, in seconds, is
\* that lifetime.
C15_FixedLifetime ==
  /\ \A token \in DOMAIN viewerTokens :
       viewerTokens[token].expiresAt = issuedAt[token] + 15 * 60 * 1000
  /\ \A tm \in timers : tm.due = issuedAt[tm.token] + 15 * 60 * 1000
  /\ last.op = "generate" /\ last.kind = "Minted"
       => /\ last.expiresIn * 1000 = 15 * 60 * 1000
          /\ MapHas(viewerTokens, last.token)
          /\ viewerTokens[last.token].expiresAt
               = now + last.expiresIn * 1000

C15_Witness ==
  /\ last.op = "generate"
  /\ last.kind = "Minted"
  /\ now > 0
  /\ \E other \in DOMAIN viewerTokens :
       /\ other # last.token
       /\ issuedAt[other] < now
       /\ viewerTokens[other].fileId # viewerTokens[last.token].fileId

\* C16: a pending timer can always run once it is due, whether its record is
\* still in the store or not; it removes the record of its own token if that
\* is there and touches nothing else: when a validation has already deleted
\* the record, the callback leaves the whole store as it is.
C16_TimerDeletesIfPresent ==
  /\ [][ \A tm \in timers :
           TimerFire(tm)
           => /\ viewerTokens' = MapDelete(viewerTokens, tm.token)
              /\ ~MapHas(viewerTokens, tm.token)
                   => viewerTokens' = viewerTokens
              /\ \A other \in DOMAIN viewerTokens \ {tm.token} :
                   /\ MapHas(viewerTokens', other)
                   /\ viewerTokens'[other] = viewerTokens[other]
              /\ timers' = timers \ {tm}
       ]_vars
  /\ [](\A tm \in timers : now >= tm.due => ENABLED TimerFire(tm))

\* a timer has just run for a token whose record a validation had deleted
\* before, while another record is in the store
C16_Witness ==
  /\ last.op = "timer"
  /\ MapHas(removedBy, last.token)
  /\ removedBy[last.token] = "validate"
  /\ DOMAIN viewerTokens # {}

\* the last instant at which the clock is observed
Horizon == TOKEN_TTL_MS + 1

\* C17: while a record is in the store its deletion is pending, due at its
\* expiresAt, so a record older than 15 minutes is one whose due callback
\* has not run yet; and, the event loop running every due callback, each
\* record (of those that expire while the clock is observed) is eventually
\* out of the store, validated again or not.
C17_EventuallyRemoved ==
  /\ [](\A token \in DOMAIN viewerTokens :
          \E tm \in timers :
            /\ tm.token = token
            /\ tm.due = viewerTokens[token].expiresAt)
  /\ \A token \in Tokens :
       (MapHas(viewerTokens, token)
          /\ viewerTokens[token].expiresAt <= Horizon)
       ~> ~MapHas(viewerTokens, token)

\* a record has been removed by its timer without ever having been refused
C17_Witness ==
  /\ last.op = "timer"
  /\ MapHas(removedBy, last.token)
  /\ removedBy[last.token] = "timer"
  /\ ~MapHas(viewerTokens, last.token)

\* C18: a record that is in the store before and after a step, whatever the
\* step (mint, token check, upstream call, timer, clock), has the same
\* fileId, filename, expiresAt and used after it as before.
C18_RecordsImmutable ==
  [][ \A token \in DOMAIN viewerTokens :
        MapHas(viewerTokens', token)
        => /\ viewerTokens'[token].fileId = viewerTokens[token].fileId
           /\ viewerTokens'[token].filename = viewerTokens[token].filename
           /\ viewerTokens'[token].expiresAt = viewerTokens[token].expiresAt
           /\ viewerTokens'[token].used = viewerTokens[token].used
    ]_vars

\* a token accepted some time after its mint, with another record minted
\* and a timer run in between
C18_Witness ==
  /\ last.op \in ValidationOps
  /\ last.kind = "Ok"
  /\ issuedAt[last.token] < now
  /\ Cardinality(DOMAIN issuedAt) >= 2
  /\ \E token \in DOMAIN removedBy : removedBy[token] = "timer"

\* C19: a step takes a record out of the store only if it is the callback of
\* the timer scheduled for that record, or a token check of a handler that
\* finds that record past its expiresAt; a check that succeeds or fails in
\* another way, an upstream call and a mint remove nothing.
C19_TwoWaysOut ==
  [][ \A token \in DOMAIN viewerTokens :
        ~MapHas(viewerTokens', token)
        => \/ \E tm \in timers : tm.token = token /\ TimerFire(tm)
           \/ /\ ValidationStep(token)
              /\ last'.kind = "Expired"
              /\ now > viewerTokens[token].expiresAt
    ]_vars

\* both ways out have been taken
C19_Witness ==
  /\ \E token \in DOMAIN removedBy : removedBy[token] = "timer"
  /\ \E token \in DOMAIN removedBy : removedBy[token] = "validate"

\* the deletion task a mint at the present instant schedules for token
NewTimer(token) == [token |-> token, due |-> now + 15 * 60 * 1000]

\* the step adds records under exactly the tokens of `minted`, none of them
\* in the store before, schedules one deletion task for each, and leaves the
\* other records and the tasks pending before as they were
MintEffect(minted) ==
  /\ minted \cap DOMAIN viewerTokens = {}
  /\ DOMAIN viewerTokens' = DOMAIN viewerTokens \cup minted
  /\ \A old \in DOMAIN viewerTokens : viewerTokens'[old] = viewerTokens[old]
  /\ {NewTimer(token) : token \in minted} \cap timers = {}
  /\ timers' = timers \cup {NewTimer(token) : token \in minted}
  /\ Cardinality(timers') = Cardinality(timers) + Cardinality(minted)

\* C20: each call of generateViewerToken adds one entry to the store, under
\* the new token, and schedules one deletion task for it; the records and
\* the tasks that were there before are unchanged.  The endpoint and the
\* listing call it once in a step, the CRM card once for each file listed.
C20_MintEffect ==
  [][ /\ \A fileId \in BodyFileIds, filename \in BodyFilenames :
           GenerateTokenRequest(fileId, filename) /\ last'.kind = "Minted"
             => MintEffect({last'.token})
      /\ \A fileId \in AttachmentIds :
           \A fileData \in UpstreamFiles(fileId) :
             ContactFilesFile(fileId, fileData) => MintEffect({last'.token})
      /\ \A allFiles \in SearchLists :
           CrmCardSearch(allFiles)
             => /\ MintEffect(DOMAIN viewerTokens' \ DOMAIN viewerTokens)
                /\ Cardinality(DOMAIN viewerTokens' \ DOMAIN viewerTokens)
                     = Len(ContactFilesOf(allFiles))
    ]_vars

\* a mint into a store that holds a record, with a deletion task pending
C20_Witness ==
  /\ last.kind = "Minted"
  /\ Cardinality(DOMAIN viewerTokens) >= 2
  /\ Cardinality(timers) >= 2

\* the host of an origin: what follows the scheme, without the port
HostOf(origin) ==
  LET scheme == IF StartsWith(origin, "https://") THEN "https://"
                ELSE IF StartsWith(origin, "http://") THEN "http://" ELSE ""
      rest == SubSeq(origin, Len(scheme) + 1, Len(origin))
      colons == {i \in 1..Len(rest) : CharAt(rest, i) = ":"}
      stop == IF colons = {} THEN Len(rest) + 1
              ELSE CHOOSE i \in colons : \A j \in colons : i <= j
  IN SubSeq(rest, 1, stop - 1)

\* host is the domain or one of its subdomains
IsDomainOrSubdomain(host, domain) ==
  host = domain \/ EndsWith(host, "." \o domain)

\* the origins the stated policy lets in: the HubSpot domains and their
\* subdomains, the backend's own domain, the local machine
PolicyOrigins ==
  {h.origin : h \in
     {r \in RequestHeaders :
        /\ r.origin # ""
        /\ StartsWith(r.origin, "http://") \/ StartsWith(r.origin, "https://")
        /\ \/ \E domain \in HUBSPOT_DOMAINS \cup {"azurewebsites.net"} :
                IsDomainOrSubdomain(HostOf(ToLower(r.origin)), domain)
           \/ HostOf(ToLower(r.origin)) \in {"localhost", "127.0.0.1"}}}

\* C23: the cors middleware lets a request with an Origin header through to
\* a route only when the origin's host is one of the HubSpot domains or a
\* subdomain of one, the backend's own domain, or the local machine; an
\* origin such as https://hubspot.com.attacker.example, which only contains
\* a HubSpot domain, is refused.
C23_CorsAdmitsOnlyPolicyOrigins ==
  [][ \A h \in RequestHeaders, hasContactId \in BOOLEAN :
        CrmCardRequest(h, hasContactId) /\ h.origin # ""
          => h.origin \in PolicyOrigins
    ]_vars

\* C21: a restart of the process leaves the store empty and no deletion
\* pending; a token issued earlier that is not in the store is never in it
\* again; and from then on each call site answers such a token with 401 as
\* a token never issued, also when its 15 minutes are not over.
C21_RestartDiscardsStore ==
  /\ [][ Restart => /\ \A token \in DOMAIN issuedAt :
                          ~MapHas(viewerTokens', token)
                    /\ viewerTokens' = EmptyMap
                    /\ timers' = {} ]_vars
  /\ [][ \A token \in DOMAIN issuedAt :
           ~MapHas(viewerTokens, token) => ~MapHas(viewerTokens', token) ]_vars
  /\ [][ \A token \in DOMAIN issuedAt :
           ValidationStep(token) /\ ~MapHas(viewerTokens, token)
             => /\ last'.kind = "NotFound"
                /\ last'.status = 401
                /\ inflight' = inflight
                /\ viewerTokens' = viewerTokens ]_vars

\* a token lost in a restart is refused although its lifetime is not over
C21_Witness ==
  /\ last.op \in ValidationOps
  /\ last.token \in DOMAIN removedBy
  /\ removedBy[last.token] = "restart"
  /\ now < ExpiryOf(last.token)
  /\ last.kind = "NotFound"
  /\ last.status = 401

\* the tokens carried by a sequence of listing entries or card actions
TokensOf(entries) == {entries[i].token : i \in 1..Len(entries)}

\* the token values in the body a step sends: the token field of the
\* generate answer, the viewerToken of each listing entry, the token in each
\* card uri, the token the viewer page embeds in its two backend URLs
ResponseTokens(step) ==
  TokensOf(step.files)
    \cup (IF step.op = "generate" /\ step.kind = "Minted" THEN {step.token}
          ELSE {})
    \cup (IF step.op = "viewer" /\ step.status = 200 THEN {step.token}
          ELSE {})

\* the tokens minted in this step
NewlyMinted == DOMAIN issuedAt' \ DOMAIN issuedAt

\* C22: no response lists the store: the tokens in a response body are
\* tokens minted while handling that very request (the generate answer, the
\* listing, whose entries are collected from its own look-ups only, the
\* card) or, on the viewer page, the token presented in that request's
\* query string; every other response carries no token.
C22_ResponsesCarryOwnTokens ==
  [][ /\ inflight'.ep # "list" => inflight'.out = <<>>
      /\ inflight.ep # "list" => inflight.out = <<>>
      /\ TokensOf(inflight'.out) \subseteq
           TokensOf(inflight.out)
             \cup (IF last'.op = "listFile" THEN NewlyMinted ELSE {})
      /\ ResponseTokens(last') \subseteq
           (CASE last'.op = "generate" -> NewlyMinted
              [] last'.op = "listFile" -> TokensOf(inflight.out) \cup NewlyMinted
              [] last'.op = "cardSearch" -> NewlyMinted
              [] last'.op = "viewer" -> PresentedTokens
              [] OTHER -> {})
      /\ \A token \in PresentedTokens, fileId \in PathFileIds :
           ViewerRequest(token, fileId)
             => ResponseTokens(last') \subseteq {token}
    ]_vars

\* a listing is answered with the token of its one file while the store
\* holds another request's token, which the answer does not show
C22_Witness ==
  /\ last.op = "listFile"
  /\ last.status = 200
  /\ ResponseTokens(last) # {}
  /\ \E token \in DOMAIN viewerTokens : token \notin ResponseTokens(last)

\* C24: every record in the store has a defined filename: each of the three
\* mint points passes the name it was given, or the placeholder 'document'
\* when it was given none.
C24_FilenameAlwaysDefined ==
  \A token \in DOMAIN viewerTokens :
    viewerTokens[token].filename # Undefined

\* this step of GET /api/file sends a further upstream request (the signed
\* URL after the metadata, the content after the signed URL)
FurtherUpstreamCall ==
  /\ FileUpstream(TRUE)
  /\ inflight.pc \in {"meta", "signed"}

\* C25 as stated: a token that expires or is deleted while its request is
\* suspended on an await lets no later upstream call of that request go out: each further
\* call is sent only while the token would still pass validateViewerToken.
C25_UpstreamOnlyWhileLive ==
  [][ FurtherUpstreamCall
        => /\ MapHas(viewerTokens, inflight.token)
           /\ validateViewerToken(viewerTokens, now, inflight.token).ok
    ]_vars

\* C25: a request goes on to its upstream calls exactly when, at its entry,
\* validateViewerToken accepted its token (and, for GET /api/file, the
\* record's fileId is the one in the path; for the upload, a file is
\* attached); the token is not looked up again: once the request is
\* suspended, each further upstream call goes out when the call before it
\* has returned, whatever has become of the record, and no step of the
\* suspended request touches the store.
C25_ValidatedOnceAtEntry ==
  /\ [][ \A token \in PresentedTokens, fileId \in PathFileIds :
           FileRequest(token, fileId)
             => LET r == validateViewerToken(viewerTokens, now, token) IN
                /\ inflight'.ep = "file"
                     <=> /\ token # NoToken
                         /\ r.ok
                         /\ ~StrictNotEqual(r.data.fileId, fileId)
                /\ inflight'.ep = "file"
                     => inflight'.token = token /\ inflight'.fileId = fileId
        ]_vars
  /\ [][ \A token \in PresentedTokens, fileId \in UploadFileIds,
            hasFile \in BOOLEAN :
           UploadRequest(token, fileId, hasFile)
             => LET r == validateViewerToken(viewerTokens, now, token) IN
                /\ inflight'.ep = "upload"
                     <=> token # NoToken /\ r.ok /\ hasFile
                /\ inflight'.ep = "upload" => inflight'.token = token
        ]_vars
  /\ [][ \A ok \in BOOLEAN :
           FileUpstream(ok) \/ UploadUpstream(ok)
             => /\ viewerTokens' = viewerTokens
                /\ inflight'.ep # "none"
                     => /\ inflight'.token = inflight.token
                        /\ inflight'.fileId = inflight.fileId
        ]_vars
  /\ [][ FileUpstream(TRUE) /\ inflight.pc \in {"meta", "signed"}
           => inflight'.ep = "file" /\ last'.status = 0 ]_vars
  /\ [](inflight.ep \in {"file", "upload"}
          => inflight.token \in DOMAIN issuedAt)

\* GET /api/file has just sent a further upstream request for a token whose
\* record was taken out of the store while the request was suspended
C25_Witness ==
  /\ inflight.ep = "file"
  /\ inflight.pc \in {"signed", "content"}
  /\ last.op = "fileUpstream"
  /\ last.status = 0
  /\ ~MapHas(viewerTokens, inflight.token)

\* C26: for every fileId that POST /api/generate-viewer-token accepts, a
\* JSON number included, the token it returns is accepted by GET
\* /api/file/<fileId> and by GET /viewer/<fileId>, with the fileId written
\* into the path, from the mint on.
C26_TokenOpensItsFile ==
  [][ \A fileId \in BodyFileIds, filename \in BodyFilenames :
        GenerateTokenRequest(fileId, filename) /\ last'.kind = "Minted"
          => LET path == Str(TemplateString(fileId)) IN
             /\ fileAuth(viewerTokens', now', last'.token, path).ok
             /\ viewerAuth(viewerTokens', now', last'.token, path).ok
    ]_vars

\* C27: in the listing, each look-up that succeeds mints one token, whose
\* record is bound to the id of the entry that carries it, a look-up that
\* fails mints none, and the answer lists exactly the entries collected; in
\* the CRM card, each action carries a token minted for it, whose record is
\* bound to the file id in the path of the action's uri, and one request
\* mints at most 10 tokens.
C27_ListedTokensBoundToTheirFile ==
  [][ /\ \A fileId \in AttachmentIds :
           \A fileData \in UpstreamFiles(fileId) :
             ContactFilesFile(fileId, fileData)
               => /\ Cardinality(NewlyMinted) = 1
                  /\ \A token \in NewlyMinted :
                       /\ viewerTokens'[token].fileId = fileData.id
                       /\ LET out == Append(inflight.out,
                                            [id |-> fileData.id,
                                             token |-> token])
                          IN IF inflight'.ep = "list"
                             THEN inflight'.out = out
                             ELSE last'.files = out
      /\ ContactFilesFileFail
           => /\ NewlyMinted = {}
              /\ IF inflight'.ep = "list"
                 THEN inflight'.out = inflight.out
                 ELSE last'.files = inflight.out
      /\ \A allFiles \in SearchLists :
           CrmCardSearch(allFiles)
             => /\ Cardinality(NewlyMinted) = Len(last'.files)
                /\ Len(last'.files) <= CARD_MAX_ACTIONS
                /\ \A i \in 1..Len(last'.files) :
                     LET e == last'.files[i] IN
                     /\ e.token \in NewlyMinted
                     /\ ~StrictNotEqual(viewerTokens'[e.token].fileId, e.id)
    ]_vars

\* C28: in every reachable state each record of the store has a deletion
\* pending: a timer set for its token that has not run yet.
C28_EveryRecordHasPendingDeletion ==
  \A token \in DOMAIN viewerTokens :
    \E tm \in timers : tm.token = token

\* a record is past its expiresAt, still in the store, its deletion pending
C28_Witness ==
  \E token \in DOMAIN viewerTokens :
    /\ now > viewerTokens[token].expiresAt
    /\ \E tm \in timers : tm.token = token /\ now > tm.due

\* C29: a timer callback takes out of the store at most the record of the
\* mint that set the timer, and every other record stays as it is; it does
\* so no earlier than that record's expiresAt; and the record it takes out
\* is one that validateViewerToken would no longer accept.
C29_TimerRemovesOnlyDeadRecords ==
  [][ \A tm \in timers :
        TimerFire(tm)
          => /\ \A token \in DOMAIN viewerTokens :
                  token # tm.token
                    => /\ MapHas(viewerTokens', token)
                       /\ viewerTokens'[token] = viewerTokens[token]
             /\ MapHas(viewerTokens, tm.token)
                  => /\ tm.due = TimerDue(issuedAt[tm.token])
                     /\ now >= viewerTokens[tm.token].expiresAt
                     /\ ~validateViewerToken(viewerTokens, now, tm.token).ok
    ]_vars

\* the steps of POST /api/hubspot/upload
UploadOps == {"upload", "uploadUpstream"}

\* C30: an upload request whose token validateViewerToken accepts and that
\* carries a file starts exactly one upstream call, the replace call when
\* the body names a fileId and the create call otherwise, and answers when
\* that call has settled, starting no other; every answer of the handler
\* (401, 400, 200, 500) is JSON with a success flag, which is true only in
\* the answer sent after the upstream call returned.
C30_UploadOneCallJsonOutcome ==
  /\ [][ \A token \in PresentedTokens, fileId \in UploadFileIds,
            hasFile \in BOOLEAN :
           UploadRequest(token, fileId, hasFile)
             => LET r == validateViewerToken(viewerTokens, now, token)
                    goesOn == token # NoToken /\ r.ok /\ hasFile
                IN IF goesOn
                   THEN /\ inflight'.ep = "upload"
                        /\ inflight'.pc = IF Truthy(fileId) THEN "replace"
                                          ELSE "create"
                        /\ last'.status = 0
                        /\ last'.success = ""
                   ELSE /\ inflight' = Idle
                        /\ last'.status \in {400, 401}
                        /\ last'.success = "false"
        ]_vars
  /\ [][ \A ok \in BOOLEAN :
           UploadUpstream(ok)
             => /\ inflight' = Idle
                /\ last'.kind = inflight.pc
                /\ last'.status = IF ok THEN 200 ELSE 500
                /\ last'.success = IF ok THEN "true" ELSE "false"
        ]_vars
  /\ [](last.op \in UploadOps /\ last.status # 0
          => last.success \in {"true", "false"})
  /\ [](last.op \in UploadOps /\ last.success = "true"
          => last.op = "uploadUpstream" /\ last.status = 200)
  /\ [](inflight.ep = "upload"
          => /\ inflight.pc \in {"replace", "create"}
             /\ inflight.pc = "replace" <=> Truthy(inflight.fileId))

\* the replace call of an upload has returned and the handler has answered
\* success: true
C30_Witness ==
  /\ last.op = "uploadUpstream"
  /\ last.kind = "replace"
  /\ last.status = 200
  /\ last.success = "true"
  /\ inflight = Idle

====
